---------------------------- MODULE Spec2Model ----------------------------
(***************************************************************************)
(* Photo processing backend (src/app.py): the per-image pipeline of        *)
(* PhotoProcessor, the /process and /clear request handlers and the three  *)
(* directories they share.                                                 *)
(***************************************************************************)
EXTENDS Integers, Sequences, FiniteSets, TLC

(***************************************************************************)
(* IEEE-754 binary64 arithmetic, as far as resize_image uses it.  A        *)
(* positive double is [m |-> <<1, d1, d2, d3, d4>>, e |-> exponent]: the   *)
(* 53-bit significand written as a leading one and four 13-bit limbs, most *)
(* significant first; its value is m * 2^e.  Python's "/" and "*" round to *)
(* nearest, ties to even; int() truncates.  Operands are integers below    *)
(* 2^13, so every intermediate fits a 32-bit integer.                      *)
(***************************************************************************)
RECURSIVE Pow2(_)
Pow2(n) == IF n = 0 THEN 1 ELSE 2 * Pow2(n - 1)

LimbBits == 13
Base == Pow2(LimbBits)
SignificandBits == 1 + 4 * LimbBits

\* The least s >= 0 with a * 2^s >= b.
RECURSIVE NormShift(_, _)
NormShift(a, b) == IF a >= b THEN 0 ELSE 1 + NormShift(2 * a, b)

\* The number of bits of n > 0.
RECURSIVE BitLen(_)
BitLen(n) == IF n = 0 THEN 0 ELSE 1 + BitLen(n \div 2)

\* The significand plus one; a carry out of the top renormalises.
IncSignificand(m, e) ==
    LET free == {i \in 2..5 : m[i] < Base - 1}
    IN  IF free = {} THEN [m |-> <<1, 0, 0, 0, 0>>, e |-> e + 1]
        ELSE LET j == CHOOSE i \in free : \A k \in free : k <= i
             IN  [m |-> [i \in 1..5 |-> IF i < j THEN m[i]
                                        ELSE IF i = j THEN m[i] + 1 ELSE 0],
                  e |-> e]

Round(m, e, up) == IF up THEN IncSignificand(m, e) ELSE [m |-> m, e |-> e]

\* a / b for integers 0 < a < b (the only quotients resize_image takes).
fdiv(a, b) ==
    LET s  == NormShift(a, b)
        r0 == a * Pow2(s) - b
        d1 == (r0 * Base) \div b
        r1 == (r0 * Base) % b
        d2 == (r1 * Base) \div b
        r2 == (r1 * Base) % b
        d3 == (r2 * Base) \div b
        r3 == (r2 * Base) % b
        d4 == (r3 * Base) \div b
        r4 == (r3 * Base) % b
        up == 2 * r4 > b \/ (2 * r4 = b /\ d4 % 2 = 1)
    IN  Round(<<1, d1, d2, d3, d4>>, -s - (SignificandBits - 1), up)

\* n * x for an integer n > 0 and a double x: the exact product of n and the
\* significand, shifted right by the k bits it outgrew 53, and rounded.
fmul(n, x) ==
    LET t4 == n * x.m[5]
        t3 == n * x.m[4] + t4 \div Base
        t2 == n * x.m[3] + t3 \div Base
        t1 == n * x.m[2] + t2 \div Base
        t0 == n * x.m[1] + t1 \div Base
        p4 == t4 % Base
        p3 == t3 % Base
        p2 == t2 % Base
        p1 == t1 % Base
        k  == BitLen(t0) - 1
        K  == Pow2(k)
        U  == Base \div K
        q0 == t0 \div K
        q1 == (t0 % K) * U + p1 \div K
        q2 == (p1 % K) * U + p2 \div K
        q3 == (p2 % K) * U + p3 \div K
        q4 == (p3 % K) * U + p4 \div K
        R  == p4 % K
        up == k >= 1 /\ (2 * R > K \/ (2 * R = K /\ q4 % 2 = 1))
    IN  Round(<<q0, q1, q2, q3, q4>>, x.e + k, up)

\* int(x) for a double 0 < x < 2^14.
fint(x) ==
    LET sh == -x.e
    IN  IF sh >= SignificandBits THEN 0
        ELSE (x.m[1] * Base + x.m[2]) \div Pow2(sh - 3 * LimbBits)

\* x < y for doubles.
flt(x, y) ==
    \/ x.e < y.e
    \/ /\ x.e = y.e
       /\ \E i \in 1..5 : /\ x.m[i] < y.m[i]
                          /\ \A j \in 1..(i - 1) : x.m[j] = y.m[j]

(***************************************************************************)
(* PhotoProcessor.resize_image, on the image's size.  A ratio is the int 1 *)
(* or a double below 1.  Pillow's resize raises ValueError for a size with *)
(* a zero side; resize_image does not catch it.                            *)
(***************************************************************************)
One == [one |-> TRUE, m |-> <<>>, e |-> 0]

Ratio(max, side) ==
    IF side > max THEN [one |-> FALSE] @@ fdiv(max, side) ELSE One

\* Python's min(a, b): b when b < a, else a.
MinRatio(a, b) ==
    IF b.one THEN a
    ELSE IF a.one THEN b
    ELSE IF flt(b, a) THEN b ELSE a

Scaled(side, ratio) == fint(fmul(side, ratio))

resize_image(size, max_width, max_height) ==
    LET width        == size[1]
        height       == size[2]
        width_ratio  == Ratio(max_width, width)
        height_ratio == Ratio(max_height, height)
        ratio        == MinRatio(width_ratio, height_ratio)
    IN  IF ratio.one THEN [raised |-> FALSE, resized |-> FALSE, size |-> size]
        ELSE LET new_width  == Scaled(width, ratio)
                 new_height == Scaled(height, ratio)
             IN  IF new_width < 1 \/ new_height < 1
                 THEN [raised |-> TRUE, resized |-> FALSE,
                       size |-> <<new_width, new_height>>]
                 ELSE [raised |-> FALSE, resized |-> TRUE,
                       size |-> <<new_width, new_height>>]

(***************************************************************************)
(* File names.  werkzeug's secure_filename and os.path.splitext on the     *)
(* names the model uploads: ".." has no safe character left, "../a.jpg"    *)
(* loses its directory part.                                               *)
(***************************************************************************)
secure_filename(name) ==
    CASE name = ".."       -> ""
      [] name = "../a.jpg" -> "a.jpg"
      [] OTHER             -> name

splitext(name) ==
    CASE name = "a.jpg" -> ".jpg"
      [] name = "b.png" -> ".png"
      [] name = "c.7"   -> ".7"
      [] OTHER          -> ""

\* str.upper on the brand, model and project fields the model sends.
upper(s) ==
    CASE s = "acme" -> "ACME"
      [] s = "x1"   -> "X1"
      [] OTHER      -> s

Digit(d) ==
    CASE d = 0 -> "0" [] d = 1 -> "1" [] d = 2 -> "2" [] d = 3 -> "3"
      [] d = 4 -> "4" [] d = 5 -> "5" [] d = 6 -> "6" [] d = 7 -> "7"
      [] d = 8 -> "8" [] OTHER -> "9"

RECURSIVE Pow10(_)
Pow10(n) == IF n = 0 THEN 1 ELSE 10 * Pow10(n - 1)

RECURSIVE DecStr(_)
DecStr(n) == IF n < 10 THEN Digit(n) ELSE DecStr(n \div 10) \o Digit(n % 10)

RECURSIVE ZeroPad(_, _)
ZeroPad(s, width) == IF Len(s) >= width THEN s ELSE ZeroPad("0" \o s, width)

\* The width of the index field, f"{index:03d}".
PadWidth == 3

\* f"{index:03d}": at least three digits, more when the index needs them.
FormatIndex(index) == ZeroPad(DecStr(index), PadWidth)

\* datetime.now().strftime('%Y%m%d_%H%M%S'): the clock counts the seconds of
\* one minute of one day.
strftime(now) == "20240101_1200" \o ZeroPad(DecStr(now), 2)

RECURSIVE Join(_, _)
Join(sep, parts) ==
    IF Len(parts) = 0 THEN ""
    ELSE IF Len(parts) = 1 THEN parts[1]
    ELSE parts[1] \o sep \o Join(sep, Tail(parts))

NonEmpty(part) == IF part = "" THEN <<>> ELSE <<part>>

\* A variant that keeps the index field at its width: the index modulo 1000.
generate_filename_wraps(original_name, index, brand_name, model_name, project_number, now) ==
    LET ext            == splitext(original_name)
        timestamp      == strftime(now)
        filename_parts == NonEmpty(brand_name) \o NonEmpty(model_name)
                          \o NonEmpty(project_number)
                          \o <<timestamp, FormatIndex(index % Pow10(PadWidth))>>
    IN  Join("_", filename_parts) \o ext

generate_filename(original_name, index, brand_name, model_name, project_number, now) ==
    LET ext            == splitext(original_name)
        timestamp      == strftime(now)
        filename_parts == NonEmpty(brand_name) \o NonEmpty(model_name)
                          \o NonEmpty(project_number)
                          \o <<timestamp, FormatIndex(index)>>
    IN  Join("_", filename_parts) \o ext

(***************************************************************************)
(* Directories: a function from the names present to their entries.  An    *)
(* entry is a regular file with its content, or a sub-directory.           *)
(***************************************************************************)
EmptyDir == <<>>

exists(dir, name) == name \in DOMAIN dir

isfile(dir, name) == name \in DOMAIN dir /\ dir[name].kind = "file"

\* A variant whose write is lost.
write_lost(dir, name, blob) == dir

write(dir, name, blob) ==
    [n \in DOMAIN dir \cup {name} |-> IF n = name THEN blob ELSE dir[n]]

\* A variant that leaves the file where it is.
remove_nothing(dir, name) == dir

remove(dir, name) == [n \in DOMAIN dir \ {name} |-> dir[n]]

Files(dir) == {n \in DOMAIN dir : dir[n].kind = "file"}

SubDir == [kind |-> "dir", fmt |-> "none", mode |-> "none", size |-> <<0, 0>>,
           src |-> <<0, 0>>, marked |-> FALSE]

\* The bytes of a file: fmt "ok" decodes, "unidentified" is not an image
\* (Image.open raises), "truncated" has a readable header and broken pixel
\* data (Image.open returns, the first load raises).  src names the upload
\* the bytes come from: <<request serial, position in its batch>>.
Blob(fmt, mode, size) ==
    [kind |-> "file", fmt |-> fmt, mode |-> mode, size |-> size,
     src |-> <<0, 0>>, marked |-> FALSE]

(***************************************************************************)
(* Images in memory.  loads: the pixel data can be read (Pillow opens      *)
(* lazily).  marked: the watermark has been pasted.                        *)
(***************************************************************************)
NoImg == [src |-> <<0, 0>>, mode |-> "none", size |-> <<0, 0>>,
          loads |-> FALSE, marked |-> FALSE]

\* A variant whose except clause raises again instead of opening the file.
CanOpenNothing(dir, name) == FALSE

\* Image.open(path): raises when there is no such file or it is no image.
CanOpen(dir, name) == isfile(dir, name) /\ dir[name].fmt /= "unidentified"

ImageOpen(blob) ==
    [src |-> blob.src, mode |-> blob.mode, size |-> blob.size,
     loads |-> blob.fmt = "ok", marked |-> FALSE]

\* rembg's remove(bytes) followed by Image.open of its PNG output: the same
\* picture with an alpha channel.  It decodes its input, so it raises on
\* bytes that do not decode, and whenever the model itself fails.
CanRemove(blob, model_error) == blob.fmt = "ok" /\ ~model_error

Removed(blob) == [ImageOpen(blob) EXCEPT !.mode = "RGBA"]

\* add_white_background: the RGBA/LA branch pastes onto a white RGB canvas
\* through img.split(), the other branch calls img.convert('RGB'); either
\* reads the pixels, and either result is RGB.
add_white_background(img) ==
    [raised |-> ~img.loads, img |-> [img EXCEPT !.mode = "RGB"]]

(***************************************************************************)
(* add_watermark.  fault names the step at which the environment makes the *)
(* call fail ("none": no such failure); the watermark file's own defects   *)
(* fail the step that first meets them.                                    *)
(***************************************************************************)
WatermarkSteps ==
    <<"load", "convert", "scale", "opacity", "base_to_rgba", "paste", "flatten">>

StepNo(step) == CHOOSE i \in 1..Len(WatermarkSteps) : WatermarkSteps[i] = step

\* int(img_width * 0.6).
WatermarkWidth(img_width) == (img_width * 6) \div 10

\* watermark.resize raises for a size with a zero side.  The height is
\* int(watermark.height * (watermark_width / watermark.width)), which is
\* at least the watermark's own height unless the watermark is shrunk.
ScaleFails(img, wblob) ==
    LET watermark_width == WatermarkWidth(img.size[1])
    IN  \/ watermark_width < 1
        \/ /\ watermark_width < wblob.size[1]
           /\ fint(fmul(wblob.size[2], fdiv(watermark_width, wblob.size[1]))) < 1

\* The step that fails because of the watermark file itself, or "none".
DataFault(img, wblob) ==
    IF wblob.fmt = "unidentified" THEN "load"
    ELSE IF wblob.fmt = "truncated"
         THEN (IF wblob.mode /= "RGBA" THEN "convert" ELSE "scale")
    ELSE IF ScaleFails(img, wblob) THEN "scale"
    ELSE "none"

\* Which steps run: the opacity step only below 100, the base conversion
\* only for a base that is not RGBA yet.
StepRuns(step, img, opacity) ==
    CASE step = "convert"      -> TRUE
      [] step = "opacity"      -> opacity < 100
      [] step = "base_to_rgba" -> img.mode /= "RGBA"
      [] OTHER                 -> TRUE

FailedStep(img, wblob, opacity, fault) ==
    LET d == DataFault(img, wblob)
        f == IF fault /= "none" /\ StepRuns(fault, img, opacity) THEN fault ELSE "none"
    IN  IF d = "none" THEN f
        ELSE IF f = "none" THEN d
        ELSE IF StepNo(f) < StepNo(d) THEN f ELSE d

\* The value of the local name img when the except clause is reached at
\* `failed`, or at the end of the try block: line 136 rebinds img to the
\* RGBA copy, line 139 pastes into it, line 142 rebinds it to the RGB result.
ImgAfter(img, failed) ==
    CASE failed = "none"    -> [img EXCEPT !.mode = "RGB", !.marked = TRUE]
      [] failed = "paste"   -> [img EXCEPT !.mode = "RGBA"]
      [] failed = "flatten" -> [img EXCEPT !.mode = "RGBA", !.marked = TRUE]
      [] OTHER              -> img

add_watermark(img, dir, watermark_path, opacity, fault) ==
    IF watermark_path = "" \/ ~exists(dir, watermark_path)
    THEN [failed |-> "skipped", img |-> img]
    ELSE LET failed == IF dir[watermark_path].kind = "dir" THEN "load"
                       ELSE FailedStep(img, dir[watermark_path], opacity, fault)
         IN  [failed |-> failed, img |-> ImgAfter(img, failed)]

\* img.save(output_path, 'JPEG'): Pillow refuses to write an RGBA image as
\* JPEG, and the path must not be a directory.
CanSaveJpeg(img, dir, name) ==
    /\ img.mode /= "RGBA"
    /\ ~(exists(dir, name) /\ dir[name].kind = "dir")

Encoded(img) ==
    [kind |-> "file", fmt |-> "ok", mode |-> img.mode, size |-> img.size,
     src |-> img.src, marked |-> img.marked]

(***************************************************************************)
(* The uploads the model sends.                                            *)
(***************************************************************************)
Good  == Blob("ok", "RGB", <<4, 3>>)
Large == Blob("ok", "RGBA", <<12, 8>>)
Thin  == Blob("ok", "LA", <<30, 1>>)
Junk  == Blob("unidentified", "none", <<0, 0>>)
Cut   == Blob("truncated", "RGB", <<4, 3>>)
Logo  == Blob("ok", "RGBA", <<4, 2>>)

Upload(filename, blob) == [filename |-> filename, blob |-> blob]

\* No file part at all (request.files.get returns None).
NoUpload == Upload("", Junk)

Settings(brand_name, watermark_opacity) ==
    [max_width |-> 10, max_height |-> 10, watermark_opacity |-> watermark_opacity,
     brand_name |-> brand_name, model_name |-> "", project_number |-> ""]

\* The longest batch and the last second of the clock.
MaxBatch == 2
MaxClock == 1

\* How many batch requests and how many resets one client sends in a row,
\* and how many two racing clients send between them.
MaxSeqBatches == 1
MaxSeqClears == 1
MaxRacingBatches == 2
MaxRacingClears == 1

RECURSIVE BatchesOf(_, _)
BatchesOf(U, n) ==
    IF n = 0 THEN {<<>>}
    ELSE LET shorter == BatchesOf(U, n - 1)
         IN  shorter \cup {Append(b, u) : b \in {x \in shorter : Len(x) = n - 1}, u \in U}

Reqs == {1, 2}

VARIABLES
    uploads,      \* the directory UPLOAD_FOLDER
    processed,    \* the directory PROCESSED_FOLDER
    watermarks,   \* the directory WATERMARK_FOLDER
    clock,        \* datetime.now(), in seconds
    served,       \* requests accepted so far, by kind
    rq,           \* per request thread: the handler's locals and its position
    harm,         \* history: the interference between requests seen so far
    fn            \* the inputs and results of the pure-function specifications

vars == <<uploads, processed, watermarks, clock, served, rq, harm, fn>>

NoFn == [op |-> "none"]

NoResponse ==
    [status |-> "none", code |-> 0, total |-> 0, success |-> 0, error |-> 0,
     processed_files |-> <<>>]

NoBg == [called |-> FALSE, failed |-> FALSE, raised |-> FALSE,
         openable |-> FALSE, original |-> NoImg, result |-> NoImg]

NoWm == [called |-> FALSE, failed |-> "none", base |-> NoImg, result |-> NoImg]

Idle ==
    [pc |-> "idle", kind |-> "none", serial |-> 0, alone |-> TRUE,
     images |-> <<>>, watermark |-> NoUpload, settings |-> Settings("", 50),
     watermark_path |-> "", index |-> 0, filename |-> "", new_filename |-> "",
     img |-> NoImg, success |-> FALSE,
     processed_count |-> 0, error_count |-> 0, processed_files |-> <<>>,
     steps |-> <<>>, traces |-> <<>>, bg |-> NoBg, wm |-> NoWm,
     folder |-> 0, pending |-> {}, removed |-> 0, response |-> NoResponse]

\* What the directories hold when the server starts: os.makedirs(...,
\* exist_ok=True) takes them as they are.
Leftovers == ("old.jpg" :> Good) @@ ("keep" :> SubDir)

Layouts == {EmptyDir, Leftovers}

Start(layout) ==
    /\ uploads = layout
    /\ processed = layout
    /\ watermarks = layout
    /\ clock = 0
    /\ served = [process |-> 0, clear |-> 0]
    /\ rq = [r \in Reqs |-> Idle]
    /\ harm = {}

\* A fresh installation: os.makedirs has just created the directories.
Init == Start(EmptyDir) /\ fn = NoFn

\* A restart over what earlier runs left behind, or a fresh installation.
InitAny == fn = NoFn /\ \E layout \in Layouts : Start(layout)

Running(x) == x.pc \notin {"idle", "done", "failed"}

\* The pipeline of one image is between image.save(temp_path) and
\* os.remove(temp_path).
UsingTemp(x) ==
    x.pc \in {"remove_background", "fallback", "add_white_background",
              "resize_image", "add_watermark", "save", "record", "cleanup"}

\* rq with thread r at rec; a step of r ends every other running thread's
\* time alone.
Step(r, rec) ==
    rq' = [q \in Reqs |->
             IF q = r THEN rec
             ELSE IF Running(rq[q]) THEN [rq[q] EXCEPT !.alone = FALSE]
             ELSE rq[q]]

\* except Exception as e: return jsonify({'status': 'error', ...}), 500
Fail500(rec) ==
    [rec EXCEPT !.pc = "failed",
                !.response = [NoResponse EXCEPT !.status = "error", !.code = 500]]

\* process_single_image's except clause.
ImageFailed(rec) ==
    [rec EXCEPT !.error_count = @ + 1, !.success = FALSE, !.img = NoImg,
                !.pc = "record"]

\* Another running batch is between saving and removing this temporary file.
InUseByOther(r, name) ==
    \E q \in Reqs \ {r} : UsingTemp(rq[q]) /\ rq[q].filename = name

WatermarkInUseByOther(r, name) ==
    \E q \in Reqs \ {r} : /\ rq[q].kind = "process"
                          /\ Running(rq[q])
                          /\ rq[q].watermark_path = name

(***************************************************************************)
(* POST /process: process_images.                                          *)
(***************************************************************************)
\* Lines 227-242: a fresh PhotoProcessor, the files and the settings.
Submit(r, images, watermark, settings) ==
    /\ rq[r].pc = "idle"
    /\ served' = [served EXCEPT !.process = @ + 1]
    /\ Step(r, [Idle EXCEPT
                  !.pc = "save_watermark", !.kind = "process",
                  !.serial = served.process + 1,
                  !.alone = \A q \in Reqs \ {r} : ~Running(rq[q]),
                  !.images = images, !.watermark = watermark,
                  !.settings = [settings EXCEPT
                                  !.brand_name = upper(@),
                                  !.model_name = upper(@),
                                  !.project_number = upper(@)]])
    /\ UNCHANGED <<uploads, processed, watermarks, clock, harm, fn>>

\* Lines 245-249.  FileStorage is falsy without a filename; save() raises
\* when the sanitized name is empty (the path is the directory itself).
SaveWatermark(r) ==
    LET x    == rq[r]
        name == secure_filename(x.watermark.filename)
    IN  /\ x.pc = "save_watermark"
        /\ IF x.watermark.filename = ""
           THEN /\ Step(r, [x EXCEPT !.pc = "loop"])
                /\ UNCHANGED watermarks
           ELSE IF name = "" \/ (exists(watermarks, name) /\ ~isfile(watermarks, name))
           THEN /\ Step(r, Fail500(x))
                /\ UNCHANGED watermarks
           ELSE /\ watermarks' = write(watermarks, name, x.watermark.blob)
                /\ Step(r, [x EXCEPT !.pc = "loop", !.watermark_path = name])
        /\ UNCHANGED <<uploads, processed, clock, served, harm, fn>>

\* Line 256: `if image:` skips a file part without a filename.
SkipImage(r) ==
    LET x == rq[r]
    IN  /\ x.pc = "loop"
        /\ x.index < Len(x.images)
        /\ x.images[x.index + 1].filename = ""
        /\ Step(r, [x EXCEPT !.index = @ + 1])
        /\ UNCHANGED <<uploads, processed, watermarks, clock, served, harm, fn>>

\* os.path.join(UPLOAD_FOLDER, filename), as the name within the directory.
temp_path(filename) == filename

\* Lines 258-272: the upload is saved under its sanitized name and the output
\* name is generated.
SaveUpload(r) ==
    LET x        == rq[r]
        image    == x.images[x.index + 1]
        filename == secure_filename(image.filename)
        path     == temp_path(filename)
    IN  /\ x.pc = "loop"
        /\ x.index < Len(x.images)
        /\ image.filename /= ""
        /\ IF filename = "" \/ (exists(uploads, path) /\ ~isfile(uploads, path))
           THEN /\ Step(r, Fail500(x))
                /\ UNCHANGED <<uploads, harm>>
           ELSE /\ uploads' = write(uploads, path,
                                    [image.blob EXCEPT !.src = <<x.serial, x.index + 1>>])
                /\ harm' = IF InUseByOther(r, path)
                           THEN harm \cup {"overwrote_temp_in_use"} ELSE harm
                /\ Step(r, [x EXCEPT
                              !.pc = "remove_background",
                              !.filename = filename,
                              !.new_filename =
                                  generate_filename(filename, x.index + 1,
                                      x.settings.brand_name, x.settings.model_name,
                                      x.settings.project_number, clock),
                              !.img = NoImg, !.success = FALSE, !.steps = <<>>,
                              !.bg = NoBg, !.wm = NoWm])
        /\ UNCHANGED <<processed, watermarks, clock, served, fn>>

(***************************************************************************)
(* PhotoProcessor.process_single_image, step by step.                      *)
(***************************************************************************)
\* Lines 37-46: the try block of remove_background.
RemoveBackground(r) ==
    LET x    == rq[r]
        path == temp_path(x.filename)
        x1   == [x EXCEPT !.steps = Append(@, "remove_background"),
                          !.bg.called = TRUE]
    IN  /\ x.pc = "remove_background"
        /\ IF ~isfile(uploads, path)
           THEN /\ Step(r, [x1 EXCEPT !.pc = "fallback", !.bg.failed = TRUE])
                /\ UNCHANGED harm
           ELSE /\ \E model_error \in BOOLEAN :
                      IF CanRemove(uploads[path], model_error)
                      THEN Step(r, [x1 EXCEPT !.pc = "add_white_background",
                                              !.img = Removed(uploads[path]),
                                              !.bg.result = Removed(uploads[path])])
                      ELSE Step(r, [x1 EXCEPT !.pc = "fallback", !.bg.failed = TRUE])
                /\ harm' = IF uploads[path].src /= <<x.serial, x.index + 1>>
                           THEN harm \cup {"read_foreign_bytes"} ELSE harm
        /\ UNCHANGED <<uploads, processed, watermarks, clock, served, fn>>

\* Lines 47-50: the except clause returns Image.open(image_path), which can
\* raise in its turn; process_single_image catches that.
RemoveBackgroundFallback(r) ==
    LET x    == rq[r]
        path == temp_path(x.filename)
    IN  /\ x.pc = "fallback"
        /\ IF CanOpen(uploads, path)
           THEN Step(r, [x EXCEPT !.pc = "add_white_background",
                                  !.img = ImageOpen(uploads[path]),
                                  !.bg.openable = TRUE,
                                  !.bg.original = ImageOpen(uploads[path]),
                                  !.bg.result = ImageOpen(uploads[path])])
           ELSE Step(r, ImageFailed([x EXCEPT !.bg.raised = TRUE]))
        /\ UNCHANGED <<uploads, processed, watermarks, clock, served, harm, fn>>

\* Line 188.
AddWhiteBackground(r) ==
    LET x   == rq[r]
        res == add_white_background(x.img)
        x1  == [x EXCEPT !.steps = Append(@, "add_white_background")]
    IN  /\ x.pc = "add_white_background"
        /\ IF res.raised
           THEN Step(r, ImageFailed(x1))
           ELSE Step(r, [x1 EXCEPT !.pc = "resize_image", !.img = res.img])
        /\ UNCHANGED <<uploads, processed, watermarks, clock, served, harm, fn>>

\* A variant that never calls add_watermark.
AfterResizeSkipsWatermark(watermark_path) == "save"

\* Line 198: `if watermark_path:`.
AfterResize(watermark_path) ==
    IF watermark_path /= "" THEN "add_watermark" ELSE "save"

\* Lines 191-195.
ResizeImage(r) ==
    LET x   == rq[r]
        res == resize_image(x.img.size, x.settings.max_width, x.settings.max_height)
        x1  == [x EXCEPT !.steps = Append(@, "resize_image")]
    IN  /\ x.pc = "resize_image"
        /\ IF res.raised
           THEN Step(r, ImageFailed(x1))
           ELSE Step(r, [x1 EXCEPT !.pc = AfterResize(x.watermark_path),
                                   !.img.size = res.size])
        /\ UNCHANGED <<uploads, processed, watermarks, clock, served, harm, fn>>

Faults == {"none"} \cup {WatermarkSteps[i] : i \in 1..Len(WatermarkSteps)}

\* Lines 199-204.
AddWatermark(r) ==
    LET x == rq[r]
    IN  /\ x.pc = "add_watermark"
        /\ \E fault \in Faults :
              LET res == add_watermark(x.img, watermarks, x.watermark_path,
                                       x.settings.watermark_opacity, fault)
              IN  Step(r, [x EXCEPT !.pc = "save",
                                    !.steps = Append(@, "add_watermark"),
                                    !.img = res.img,
                                    !.wm = [called |-> TRUE, failed |-> res.failed,
                                            base |-> x.img, result |-> res.img]])
        /\ UNCHANGED <<uploads, processed, watermarks, clock, served, harm, fn>>

\* Lines 207-210.
SaveOutput(r) ==
    LET x  == rq[r]
        x1 == [x EXCEPT !.steps = Append(@, "save")]
    IN  /\ x.pc = "save"
        /\ IF CanSaveJpeg(x.img, processed, x.new_filename)
           THEN /\ processed' = write(processed, x.new_filename, Encoded(x.img))
                /\ Step(r, [x1 EXCEPT !.pc = "record", !.success = TRUE,
                                      !.processed_count = @ + 1,
                                      !.steps = Append(@, "stored")])
           ELSE /\ Step(r, ImageFailed(x1))
                /\ UNCHANGED processed
        /\ UNCHANGED <<uploads, watermarks, clock, served, harm, fn>>

(***************************************************************************)
(* process_images, after process_single_image has returned.                *)
(***************************************************************************)
\* The preview of a response entry: the upload whose picture the encoded
\* file shows (the data URI itself is left out), <<0, 0>> for none.
NoPreview == <<0, 0>>

\* Lines 283-302: one entry per processed image; the success branch reads
\* the output file back.
RecordResult(r) ==
    LET x == rq[r]
    IN  /\ x.pc = "record"
        /\ IF x.success /\ ~isfile(processed, x.new_filename)
           THEN Step(r, Fail500(x))
           ELSE Step(r, [x EXCEPT
                  !.pc = "cleanup",
                  !.traces = Append(@, x.steps),
                  !.processed_files = Append(@,
                      IF x.success
                      THEN [original |-> x.filename, filename |-> x.new_filename,
                            status |-> "success",
                            url |-> processed[x.new_filename].src,
                            path |-> x.new_filename]
                      ELSE [original |-> x.filename, filename |-> x.new_filename,
                            status |-> "error", url |-> NoPreview, path |-> ""])])
        /\ UNCHANGED <<uploads, processed, watermarks, clock, served, harm, fn>>

\* Line 305: os.remove(temp_path) raises when the file is gone.
RemoveTemp(r) ==
    LET x    == rq[r]
        path == temp_path(x.filename)
    IN  /\ x.pc = "cleanup"
        /\ IF isfile(uploads, path)
           THEN /\ uploads' = remove(uploads, path)
                /\ harm' = IF InUseByOther(r, path)
                           THEN harm \cup {"removed_temp_in_use"} ELSE harm
                /\ Step(r, [x EXCEPT !.pc = "loop", !.index = @ + 1])
           ELSE /\ Step(r, Fail500(x))
                /\ harm' = harm \cup {"failed_on_missing_temp"}
                /\ UNCHANGED uploads
        /\ UNCHANGED <<processed, watermarks, clock, served, fn>>

\* Lines 308-314.
ReturnSummary(r) ==
    LET x == rq[r]
    IN  /\ x.pc = "loop"
        /\ x.index = Len(x.images)
        /\ Step(r, [x EXCEPT
                      !.pc = "done",
                      !.response = [status |-> "success", code |-> 200,
                                    total |-> Len(x.images),
                                    success |-> x.processed_count,
                                    error |-> x.error_count,
                                    processed_files |-> x.processed_files]])
        /\ UNCHANGED <<uploads, processed, watermarks, clock, served, harm, fn>>

(***************************************************************************)
(* POST /clear: clear_folders.                                             *)
(***************************************************************************)
\* Line 346: [UPLOAD_FOLDER, PROCESSED_FOLDER, WATERMARK_FOLDER].
Folders == <<"uploads", "processed", "watermarks">>

Dir(folder) ==
    CASE Folders[folder] = "uploads"   -> uploads
      [] Folders[folder] = "processed" -> processed
      [] OTHER                         -> watermarks

\* A variant that lists one entry only.
listdir_first(dir) ==
    IF DOMAIN dir = {} THEN {} ELSE {CHOOSE n \in DOMAIN dir : TRUE}

\* os.listdir(folder).
listdir(dir) == DOMAIN dir

StartClear(r) ==
    /\ rq[r].pc = "idle"
    /\ served' = [served EXCEPT !.clear = @ + 1]
    /\ Step(r, [Idle EXCEPT !.pc = "list", !.kind = "clear",
                            !.alone = \A q \in Reqs \ {r} : ~Running(rq[q]),
                            !.folder = 1])
    /\ UNCHANGED <<uploads, processed, watermarks, clock, harm, fn>>

\* Line 347: the listing is taken once per folder.
ListFolder(r) ==
    LET x == rq[r]
    IN  /\ x.pc = "list"
        /\ Step(r, [x EXCEPT !.pc = "clear_remove", !.pending = listdir(Dir(x.folder))])
        /\ UNCHANGED <<uploads, processed, watermarks, clock, served, harm, fn>>

\* Lines 348-350: only regular files are removed.
RemoveEntry(r) ==
    LET x == rq[r]
    IN  /\ x.pc = "clear_remove"
        /\ \E filename \in x.pending :
              /\ Step(r, [x EXCEPT !.pending = @ \ {filename},
                                    !.removed = IF isfile(Dir(x.folder), filename)
                                                THEN @ + 1 ELSE @])
              /\ IF isfile(Dir(x.folder), filename)
                 THEN /\ uploads' = IF Folders[x.folder] = "uploads"
                                    THEN remove(uploads, filename) ELSE uploads
                      /\ processed' = IF Folders[x.folder] = "processed"
                                      THEN remove(processed, filename) ELSE processed
                      /\ watermarks' = IF Folders[x.folder] = "watermarks"
                                       THEN remove(watermarks, filename) ELSE watermarks
                      /\ harm' =
                           IF \/ Folders[x.folder] = "uploads" /\ InUseByOther(r, filename)
                              \/ /\ Folders[x.folder] = "watermarks"
                                 /\ WatermarkInUseByOther(r, filename)
                           THEN harm \cup {"reset_removed_file_in_use"} ELSE harm
                 ELSE UNCHANGED <<uploads, processed, watermarks, harm>>
        /\ UNCHANGED <<clock, served, fn>>

\* The end of one folder's loop; after the last, line 352.
NextFolder(r) ==
    LET x == rq[r]
    IN  /\ x.pc = "clear_remove"
        /\ x.pending = {}
        /\ IF x.folder < Len(Folders)
           THEN Step(r, [x EXCEPT !.pc = "list", !.folder = @ + 1])
           ELSE Step(r, [x EXCEPT !.pc = "done",
                                  !.response = [NoResponse EXCEPT !.status = "success",
                                                                  !.code = 200]])
        /\ UNCHANGED <<uploads, processed, watermarks, clock, served, harm, fn>>

\* The response has been sent; the thread serves the next request.
Finish(r) ==
    /\ rq[r].pc \in {"done", "failed"}
    /\ rq' = [rq EXCEPT ![r] = Idle]
    /\ UNCHANGED <<uploads, processed, watermarks, clock, served, harm, fn>>

\* A second passes.
Tick ==
    /\ clock < MaxClock
    /\ clock' = clock + 1
    /\ UNCHANGED <<uploads, processed, watermarks, served, rq, harm, fn>>

(***************************************************************************)
(* The requests sent.                                                      *)
(***************************************************************************)
ImageFiles == {Good, Large, Thin, Junk, Cut}

ImageUploads ==
    {Upload("a.jpg", b) : b \in ImageFiles}
    \cup {Upload("b.png", Good), Upload("b.png", Junk), Upload("../a.jpg", Good),
          Upload("", Good), Upload("..", Good)}

WatermarkUploads == {NoUpload, Upload("logo.png", Logo), Upload("logo.png", Junk)}

SettingsSent == {Settings("", 50), Settings("acme", 100)}

\* The requests two racing clients send.
RacingUploads == {Upload("a.jpg", Good), Upload("", Good)}

RacingWatermarks == {NoUpload, Upload("logo.png", Logo)}

Work(r) ==
    \/ SaveWatermark(r)
    \/ SkipImage(r)
    \/ SaveUpload(r)
    \/ RemoveBackground(r)
    \/ RemoveBackgroundFallback(r)
    \/ AddWhiteBackground(r)
    \/ ResizeImage(r)
    \/ AddWatermark(r)
    \/ SaveOutput(r)
    \/ RecordResult(r)
    \/ RemoveTemp(r)
    \/ ReturnSummary(r)
    \/ ListFolder(r)
    \/ RemoveEntry(r)
    \/ NextFolder(r)
    \/ Finish(r)

\* Flask serves each request on its own thread: any interleaving of the
\* handlers' file operations, all within one second.
Next ==
    \/ \E r \in Reqs :
          \/ Work(r)
          \/ served.clear < MaxRacingClears /\ StartClear(r)
          \/ /\ served.process < MaxRacingBatches
             /\ \E images \in BatchesOf(RacingUploads, 1), watermark \in RacingWatermarks :
                   Submit(r, images, watermark, Settings("", 50))

Spec == Init /\ [][Next]_vars

\* One client that waits for each response before it sends the next request.
NextSeq ==
    \/ Tick
    \/ Work(1)
    \/ served.clear < MaxSeqClears /\ StartClear(1)
    \/ /\ served.process < MaxSeqBatches
       /\ \E images \in BatchesOf(ImageUploads, MaxBatch),
             watermark \in WatermarkUploads, settings \in SettingsSent :
                Submit(1, images, watermark, settings)

SpecSeq == InitAny /\ [][NextSeq]_vars

(***************************************************************************)
(* generate_filename on its own: the names of two images of one batch.     *)
(* Their indexes differ (enumerate); the original names and the seconds at *)
(* which they are named are free, the second never before the first.       *)
(***************************************************************************)
MaxIndex == 3
MaxThousands == 2

\* Indexes on both sides of the width of the index field.
Indexes ==
    (1..MaxIndex)
    \cup {Pow10(PadWidth) - 1}
    \cup {k * Pow10(PadWidth) + i : k \in 1..MaxThousands, i \in 0..MaxIndex}

OriginalNames == {"a.jpg", "b.png", "c.7", "README"}

Item(original_name, index, now) ==
    [original_name |-> original_name, index |-> index, now |-> now]

InitNames ==
    /\ Start(EmptyDir)
    /\ \E i \in Indexes, j \in Indexes, n1 \in OriginalNames, n2 \in OriginalNames,
          t1 \in 0..MaxClock, t2 \in 0..MaxClock,
          brand \in {"", "ACME"}, project \in {"", "7"} :
          /\ i < j
          /\ t1 <= t2
          /\ fn = [op |-> "generate_filename", brand_name |-> brand,
                   model_name |-> "", project_number |-> project,
                   items |-> <<Item(n1, i, t1), Item(n2, j, t2)>>, out |-> <<>>]

NameImage ==
    /\ fn.op = "generate_filename"
    /\ Len(fn.out) < Len(fn.items)
    /\ LET item == fn.items[Len(fn.out) + 1]
       IN  fn' = [fn EXCEPT !.out = Append(@,
                     generate_filename(item.original_name, item.index, fn.brand_name,
                                       fn.model_name, fn.project_number, item.now))]
    /\ UNCHANGED <<uploads, processed, watermarks, clock, served, rq, harm>>

SpecNames == InitNames /\ [][NameImage]_vars

(***************************************************************************)
(* resize_image on its own.                                                *)
(***************************************************************************)
MaxSide == 23
MaxLimit == 16

InitResize ==
    /\ Start(EmptyDir)
    /\ \E width \in 1..MaxSide, height \in 1..MaxSide,
          max_width \in 1..MaxLimit, max_height \in 1..MaxLimit :
          fn = [op |-> "resize_image", size |-> <<width, height>>,
                max_width |-> max_width, max_height |-> max_height,
                called |-> FALSE,
                out |-> [raised |-> FALSE, resized |-> FALSE, size |-> <<0, 0>>]]

Resize ==
    /\ fn.op = "resize_image"
    /\ ~fn.called
    /\ fn' = [fn EXCEPT !.called = TRUE,
                        !.out = resize_image(fn.size, fn.max_width, fn.max_height)]
    /\ UNCHANGED <<uploads, processed, watermarks, clock, served, rq, harm>>

SpecResize == InitResize /\ [][Resize]_vars

(***************************************************************************)
(* Properties.                                                             *)
(***************************************************************************)
Batch(x) == x.kind = "process"

Summary(x) == Batch(x) /\ x.pc = "done" /\ x.response.status = "success"

CountStatus(files, status) ==
    Cardinality({i \in 1..Len(files) : files[i].status = status})

IsPrefix(s, t) == Len(s) <= Len(t) /\ \A i \in 1..Len(s) : s[i] = t[i]

\* C1: every summary lists exactly one entry per submitted image, in input
\* order, each with status success or error, so the number of entries is the
\* reported total.
C1_EveryImageListed ==
    \A r \in Reqs :
       LET x     == rq[r]
           files == x.response.processed_files
       IN  Summary(x) =>
             /\ x.response.total = Len(x.images)
             /\ Len(files) = x.response.total
             /\ \A i \in 1..Len(files) :
                   /\ files[i].status \in {"success", "error"}
                   /\ i <= Len(x.images)
                   /\ files[i].original = secure_filename(x.images[i].filename)

\* C2: a failure in one image is confined to it: in every summary success
\* plus error is the total, success counts the success entries and error the
\* error entries.
C2_CountsAddUp ==
    \A r \in Reqs :
       LET x == rq[r]
           a == x.response
       IN  Summary(x) =>
             /\ a.success + a.error = a.total
             /\ a.success = CountStatus(a.processed_files, "success")
             /\ a.error = CountStatus(a.processed_files, "error")

\* C3: the generated filenames of two images of one batch differ, whatever
\* their original names, the seconds they are named in and their indexes.
C3_NamesDiffer ==
    (fn.op = "generate_filename" /\ Len(fn.out) = 2) => fn.out[1] /= fn.out[2]

\* C3's case: the same original name, the same second, an index wider than
\* the index field.
C3_Witness ==
    /\ fn.op = "generate_filename"
    /\ Len(fn.out) = 2
    /\ fn.items[1].original_name = fn.items[2].original_name
    /\ fn.items[1].now = fn.items[2].now
    /\ fn.items[2].index = fn.items[1].index + Pow10(PadWidth)

\* The entry of the temporary file while the pipeline of its image runs.
TempOf(x) == uploads[temp_path(x.filename)]

AfterBackground(x) ==
    /\ Batch(x)
    /\ x.bg.called
    /\ x.pc \in {"add_white_background", "resize_image", "add_watermark", "save",
                 "record", "cleanup"}
    /\ isfile(uploads, temp_path(x.filename))

C5_FailureReturnsBase ==
    \A r \in Reqs :
       LET x == rq[r]
       IN  (x.wm.called /\ x.wm.failed \notin {"none", "skipped"}) =>
             /\ x.wm.result = x.wm.base
             /\ x.wm.result.mode = "RGB"
             /\ x.pc \in {"record", "cleanup"} => x.success

\* The calls of one run of process_single_image that succeeds.
Expected(watermark_path) ==
    <<"remove_background", "add_white_background", "resize_image">>
    \o (IF watermark_path /= "" THEN <<"add_watermark">> ELSE <<>>)
    \o <<"save", "stored">>

\* C6: the steps of every image run in the fixed order, watermarking alone
\* is left out, exactly when there is no watermark path, and an image counts
\* as a success only once it is encoded and stored.
C6_FixedOrder ==
    \A r \in Reqs :
       LET x    == rq[r]
           full == Expected(x.watermark_path)
           done == {i \in 1..Len(x.traces) : x.traces[i] = full}
       IN  Batch(x) =>
             /\ IsPrefix(x.steps, full)
             /\ Len(x.traces) = Len(x.processed_files)
             /\ \A i \in 1..Len(x.traces) :
                   /\ IsPrefix(x.traces[i], full)
                   /\ x.processed_files[i].status = "success" <=> i \in done
             /\ x.processed_count =
                   Cardinality(done) + (IF x.pc = "record" /\ x.steps = full THEN 1 ELSE 0)
             /\ (x.pc = "record" /\ x.success) => x.steps = full

\* C6's case: a batch with a watermark, one image stored and one failed.
C6_Witness ==
    \E r \in Reqs :
       LET x == rq[r]
       IN  /\ Summary(x)
           /\ x.watermark_path /= ""
           /\ CountStatus(x.processed_files, "success") >= 1
           /\ CountStatus(x.processed_files, "error") >= 1

\* C7: the size follows the exact factor f = min(1, max_width/width,
\* max_height/height): unmodified when the image fits, else floor(width*f)
\* by floor(height*f) (checked wherever resize returns an image); never
\* enlarged, always within the limits.
C7_ExactFloor ==
    (fn.op = "resize_image" /\ fn.called) =>
       LET width  == fn.size[1]
           height == fn.size[2]
           fits   == width <= fn.max_width /\ height <= fn.max_height
           by_w   == fn.max_width * height <= fn.max_height * width
           num    == IF by_w THEN fn.max_width ELSE fn.max_height
           den    == IF by_w THEN width ELSE height
       IN  /\ fits => (~fn.out.resized /\ ~fn.out.raised /\ fn.out.size = fn.size)
           /\ (~fits /\ ~fn.out.raised) =>
                 fn.out.size = <<(width * num) \div den, (height * num) \div den>>
           /\ fn.out.size[1] <= width /\ fn.out.size[1] <= fn.max_width
           /\ fn.out.size[2] <= height /\ fn.out.size[2] <= fn.max_height

Reset(x) == x.kind = "clear"

\* C8 as stated: after a successful reset the three directories are empty.
C8_AllEmptyAfterReset ==
    \A r \in Reqs :
       (Reset(rq[r]) /\ rq[r].pc = "done") =>
          /\ DOMAIN uploads = {}
          /\ DOMAIN processed = {}
          /\ DOMAIN watermarks = {}

\* C8, amended: a reset never fails, and after it no regular file is left in
\* the three directories; what is left is sub-directories.
C8_NoFileLeftAfterReset ==
    \A r \in Reqs :
       Reset(rq[r]) =>
          /\ rq[r].pc /= "failed"
          /\ rq[r].pc = "done" =>
                /\ rq[r].response.status = "success"
                /\ Files(uploads) = {}
                /\ Files(processed) = {}
                /\ Files(watermarks) = {}

\* C8's case: a reset that removed the leftovers and a batch's files, and
\* one over directories that hold files and a sub-directory.
C8_Witness ==
    \E r \in Reqs :
       /\ Reset(rq[r])
       /\ rq[r].pc = "done"
       /\ served.process = 1
       /\ rq[r].removed > 4
       /\ "keep" \in DOMAIN processed

\* C9: interference needs a second request.  A batch that no other request
\* has run beside finds, all through the pipeline of an image, its own upload
\* in the temporary file; it does not fail, and its previews show its own
\* images.
C9_AloneIsUndisturbed ==
    \A r \in Reqs :
       LET x == rq[r]
       IN  (Batch(x) /\ x.alone) =>
             /\ x.pc /= "failed"
             /\ UsingTemp(x) =>
                   /\ isfile(uploads, temp_path(x.filename))
                   /\ TempOf(x).src = <<x.serial, x.index + 1>>
             /\ \A i \in 1..Len(x.processed_files) :
                   x.processed_files[i].status = "success" =>
                      x.processed_files[i].url[1] = x.serial

\* C9's case: beside another request, a temporary file in use was
\* overwritten, a batch read bytes it did not upload, a reset removed a file
\* in use, and a batch failed on its missing temporary file.
C9_RaceHarms ==
    {"overwrote_temp_in_use", "read_foreign_bytes", "reset_removed_file_in_use",
     "failed_on_missing_temp"} \subseteq harm

\* C10: when a batch that ran alone returns its summary, the temporary file
\* of every image it processed is gone, failed or not, and the output file of
\* every success is in the processed directory.
C10_TempsRemovedOutputsKept ==
    \A r \in Reqs :
       LET x     == rq[r]
           files == x.response.processed_files
       IN  Summary(x) =>
             \A i \in 1..Len(files) :
                /\ ~exists(uploads, temp_path(files[i].original))
                /\ files[i].status = "success" =>
                      /\ isfile(processed, files[i].path)
                      /\ processed[files[i].path].src = files[i].url

\* C10's case: two images under one sanitized name, the first failed and
\* the second stored.
C10_Witness ==
    \E r \in Reqs :
       LET x     == rq[r]
           files == x.response.processed_files
       IN  /\ Summary(x)
           /\ Len(files) = 2
           /\ files[1].original = files[2].original
           /\ files[1].status = "error"
           /\ files[2].status = "success"

=============================================================================
